---- MODULE Spec2Model ----
(***************************************************************************)
(* Kobo Highlight Picker & Inboxer: the sync of Kobo highlight rows into   *)
(* a book's intermediate note (ExtractHighlightsModal.syncToIntermediate-  *)
(* Note) and the extraction of checked memos into insight notes            *)
(* (KoboHighlightsImporter.extractHighlightsToNotes).                      *)
(*                                                                         *)
(* Strings.  A character is a one-element TLA+ string.  A string without   *)
(* line breaks is a sequence of characters (a "line").  A string that may  *)
(* hold line breaks is held as the sequence of lines s.split("\n"): this   *)
(* is a bijection between strings and non-empty sequences of lines, so     *)
(* split("\n") and join("\n") are the identity on this representation and  *)
(* every other string operation is defined on it character by character.   *)
(***************************************************************************)
EXTENDS Integers, Sequences, FiniteSets, TLC

(***************************************************************************)
(* Bounds of the model                                                     *)
(***************************************************************************)
MaxRows == 2
MaxLinks == 2

(***************************************************************************)
(* Character-level string operations (JavaScript String methods)           *)
(***************************************************************************)
WS == {" ", "\t", "\r"}

IsWs(c) == c \in WS

IsBlank(s) == \A i \in 1..Len(s) : IsWs(s[i])

StartsWithAt(s, p, i) ==
    /\ i >= 1
    /\ i + Len(p) - 1 <= Len(s)
    /\ \A j \in 1..Len(p) : s[i + j - 1] = p[j]

StartsWith(s, p) == StartsWithAt(s, p, 1)

Includes(s, p) == \E i \in 1..(Len(s) - Len(p) + 1) : StartsWithAt(s, p, i)

\* index of the first character at or after position from that is not
\* white space; Len(s) + 1 when there is none
SkipWs(s, from) ==
    IF \E i \in from..Len(s) : ~IsWs(s[i])
    THEN CHOOSE i \in from..Len(s) :
            ~IsWs(s[i]) /\ \A j \in from..(i - 1) : IsWs(s[j])
    ELSE Len(s) + 1

\* index of the last character that is not white space; 0 when there is none
LastNonWs(s) ==
    IF \E i \in 1..Len(s) : ~IsWs(s[i])
    THEN CHOOSE i \in 1..Len(s) :
            ~IsWs(s[i]) /\ \A j \in (i + 1)..Len(s) : IsWs(s[j])
    ELSE 0

TrimStartL(s) == SubSeq(s, SkipWs(s, 1), Len(s))

TrimEndL(s) == SubSeq(s, 1, LastNonWs(s))

TrimL(s) == TrimEndL(TrimStartL(s))

Slice(s, n) == SubSeq(s, 1, IF Len(s) < n THEN Len(s) ELSE n)

(***************************************************************************)
(* Operations on strings with line breaks (sequences of lines)             *)
(***************************************************************************)
EmptyText == << <<>> >>

\* a + b
TextConcat(a, b) ==
    SubSeq(a, 1, Len(a) - 1) \o << a[Len(a)] \o b[1] >> \o SubSeq(b, 2, Len(b))

\* s.includes(p) for a pattern p without line break
TextIncludes(t, p) == \E k \in 1..Len(t) : Includes(t[k], p)

LastNonBlankLine(t) ==
    IF \E k \in 1..Len(t) : ~IsBlank(t[k])
    THEN CHOOSE k \in 1..Len(t) :
            ~IsBlank(t[k]) /\ \A j \in (k + 1)..Len(t) : IsBlank(t[j])
    ELSE 0

FirstNonBlankLine(t) ==
    IF \E k \in 1..Len(t) : ~IsBlank(t[k])
    THEN CHOOSE k \in 1..Len(t) :
            ~IsBlank(t[k]) /\ \A j \in 1..(k - 1) : IsBlank(t[j])
    ELSE 0

\* s.trimEnd(): the line break is white space too
TextTrimEnd(t) ==
    LET k == LastNonBlankLine(t)
    IN  IF k = 0 THEN EmptyText
        ELSE SubSeq(t, 1, k - 1) \o << TrimEndL(t[k]) >>

TextTrimStart(t) ==
    LET k == FirstNonBlankLine(t)
    IN  IF k = 0 THEN EmptyText
        ELSE << TrimStartL(t[k]) >> \o SubSeq(t, k + 1, Len(t))

\* s.trim()
TextTrim(t) == TextTrimEnd(TextTrimStart(t))

\* s.replace(/\r?\n/g, ""): the lines glued together
RECURSIVE Flatten(_)
Flatten(t) == IF t = <<>> THEN <<>> ELSE Head(t) \o Flatten(Tail(t))

Digit(n) == << "0", "1", "2", "3", "4", "5", "6", "7", "8", "9" >>[n + 1]

\* String(n) for a natural number
RECURSIVE NumStr(_)
NumStr(n) == IF n < 10 THEN << Digit(n) >>
             ELSE NumStr(n \div 10) \o << Digit(n % 10) >>

(***************************************************************************)
(* String literals of the source                                           *)
(***************************************************************************)
DASHES == << "-", "-", "-" >>
QUOTE_OPEN == << ">", " ", "[", "!", "q", "u", "o", "t", "e", "]" >>
CALLOUT_TAG == << "[", "!", "q", "u", "o", "t", "e", "]" >>
ELLIPSIS == << ".", ".", "." >>
HTML_OPEN == << "<", "!", "-", "-" >>
HTML_CLOSE == << "-", "-", ">" >>
ID_KEY == << "i", "d", ":" >>
MEMO_KEY == << "m", "e", "m", "o", ":", ":" >>
EMPTY_MEMO_LINE == << "-", " ", "[", " ", "]", " " >> \o MEMO_KEY \o << " " >>
CHECKED == << "-", " ", "[", "x", "]" >>
INSIGHT_LINK_PREFIX == << "i", "n", "s", "i", "g", "h", "t", ":", ":" >>
\* the annotation marker, one character
ANNOTATION_MARK == "<memo-emoji>"
\* new Date().toISOString(): a time stamp, which no pattern of the program
\* inspects, is held as one character
NowIso == "<iso-timestamp>"
H_TOTAL_KEY == << "h", "i", "g", "h", "l", "i", "g", "h", "t", "s", "_",
                  "t", "o", "t", "a", "l", ":" >>
I_CREATED_KEY == << "i", "n", "s", "i", "g", "h", "t", "s", "_",
                    "c", "r", "e", "a", "t", "e", "d", ":" >>
UPDATED_KEY == << "u", "p", "d", "a", "t", "e", "d", "_", "a", "t", ":" >>
\* the character that opens and closes a code fence
FENCE == "<backtick>"
SummaryLen == 30

(***************************************************************************)
(* Stats (computeIntermediateStats, the same in the modal and the plugin)  *)
(***************************************************************************)
\* /^> \[!quote\]/m on one line
IsQuoteOpening(line) == StartsWith(line, QUOTE_OPEN)

\* /^\s*-\s*insight::\s*\[\[.+?\]\]/m on one line
IsInsightLinkLine(line) ==
    LET a == SkipWs(line, 1)
        b == SkipWs(line, a + 1)
        c == SkipWs(line, b + Len(INSIGHT_LINK_PREFIX))
    IN  /\ StartsWithAt(line, << "-" >>, a)
        /\ StartsWithAt(line, INSIGHT_LINK_PREFIX, b)
        /\ StartsWithAt(line, << "[", "[" >>, c)
        /\ \E e \in (c + 3)..(Len(line) - 1) :
                StartsWithAt(line, << "]", "]" >>, e)

computeIntermediateStats(text) ==
    [ highlights_total |->
          Cardinality({ k \in 1..Len(text) : IsQuoteOpening(text[k]) }),
      insights_created |->
          Cardinality({ k \in 1..Len(text) : IsInsightLinkLine(text[k]) }) ]

(***************************************************************************)
(* Frontmatter cache (recomputeAndCacheStats, updateIntermediateNoteStats) *)
(***************************************************************************)
\* index of the line that closes the frontmatter; 0 when the text has none
FrontMatterEnd(text) ==
    IF text[1] = DASHES /\ \E k \in 2..Len(text) : text[k] = DASHES
    THEN CHOOSE k \in 2..Len(text) :
            text[k] = DASHES /\ \A j \in 2..(k - 1) : text[j] # DASHES
    ELSE 0

\* the callback given to processFrontMatter: kobo_stats.highlights_total,
\* kobo_stats.insights_created and kobo_stats.updated_at are set, every
\* other line of the file is kept
processFrontMatter(text, stats) ==
    LET e == FrontMatterEnd(text)
        Field(key, val) == << " ", " " >> \o key \o << " " >> \o val
        NewLine(k) ==
            IF k >= e THEN text[k]
            ELSE IF StartsWith(TrimStartL(text[k]), H_TOTAL_KEY)
                 THEN Field(H_TOTAL_KEY, NumStr(stats.highlights_total))
            ELSE IF StartsWith(TrimStartL(text[k]), I_CREATED_KEY)
                 THEN Field(I_CREATED_KEY, NumStr(stats.insights_created))
            ELSE IF StartsWith(TrimStartL(text[k]), UPDATED_KEY)
                 THEN Field(UPDATED_KEY, << NowIso >>)
            ELSE text[k]
    IN  [ k \in 1..Len(text) |-> NewLine(k) ]

\* the kobo_stats values held in the frontmatter of a text
CachedValue(text, key) ==
    LET e == FrontMatterEnd(text)
        ks == { k \in 2..(e - 1) : StartsWith(TrimStartL(text[k]), key) }
    IN  IF ks = {} THEN << >>
        ELSE LET k == CHOOSE k \in ks : TRUE
                 l == TrimStartL(text[k])
             IN  TrimL(SubSeq(l, Len(key) + 1, Len(l)))

readCachedStats(text) ==
    [ highlights_total |-> CachedValue(text, H_TOTAL_KEY),
      insights_created |-> CachedValue(text, I_CREATED_KEY) ]

recomputeAndCacheStats(text) ==
    processFrontMatter(text, computeIntermediateStats(text))

(***************************************************************************)
(* syncToIntermediateNote                                                  *)
(***************************************************************************)
createNoteHeader(title) ==
    << DASHES,
       << "t", "i", "t", "l", "e", ":", " ", "\"" >> \o title \o << "\"" >>,
       << "s", "y", "n", "c", "_", "d", "a", "t", "e", ":", " ", NowIso >>,
       << "k", "o", "b", "o", "_", "s", "t", "a", "t", "s", ":" >>,
       << " ", " " >> \o H_TOTAL_KEY \o << " ", "0" >>,
       << " ", " " >> \o I_CREATED_KEY \o << " ", "0" >>,
       << " ", " " >> \o UPDATED_KEY \o << " ", NowIso >>,
       DASHES,
       << >>,
       << FENCE, FENCE, FENCE, "k", "o", "b", "o", "-",
          "i", "n", "b", "o", "x", "e", "r" >>,
       << FENCE, FENCE, FENCE >>,
       << >>,
       << "#", " " >> \o title,
       << >> >>

\* rawText.trim().split("\n").map(line => "> " + line).join("\n")
CalloutText(rawText) ==
    LET t == TextTrim(rawText)
    IN  [ k \in 1..Len(t) |-> << ">", " " >> \o t[k] ]

\* rawText.replace(/\r?\n/g, "").slice(0, 30)
Summary(rawText) == Slice(Flatten(rawText), SummaryLen)

\* the search string "id: " + id
IdNeedle(id) == ID_KEY \o << " " >> \o id

\* the block of one row, as the template literal builds it
HighlightBlock(row) ==
    LET head == << << >>,
                   DASHES,
                   QUOTE_OPEN \o << "-", " " >> \o Summary(row.text)
                       \o ELLIPSIS,
                   << ">", " " >> \o HTML_OPEN \o << " " >> \o IdNeedle(row.id)
                       \o << " " >> \o HTML_CLOSE,
                   << >> >>
        quote == TextConcat(TextConcat(head, CalloutText(row.text)),
                            << << >>, << ">", " " >>, << >>, << >> >>)
        noted == IF row.annotation # << >>
                 THEN TextConcat(quote,
                        << << ANNOTATION_MARK, ":", " " >> \o row.annotation,
                           << >>, << >> >>)
                 ELSE quote
    IN  TextConcat(noted, << EMPTY_MEMO_LINE, << >> >>)

\* the search string written without its space
IsNewRow_NoSpace(existingContent, row) ==
    ~TextIncludes(existingContent, ID_KEY \o row.id)

IsNewRow(existingContent, row) ==
    ~TextIncludes(existingContent, IdNeedle(row.id))

\* the loop that puts each new block before the blocks gathered so far
RECURSIVE NewHighlights_Prepend(_, _)
NewHighlights_Prepend(existingContent, rows) ==
    IF rows = << >> THEN [ text |-> EmptyText, added |-> 0 ]
    ELSE LET rest == NewHighlights_Prepend(existingContent, Tail(rows))
         IN  IF ~TextIncludes(existingContent, IdNeedle(Head(rows).id))
             THEN [ text |-> TextConcat(rest.text, HighlightBlock(Head(rows))),
                    added |-> rest.added + 1 ]
             ELSE rest

\* the loop over the rows: newHighlightsText and addedCount
RECURSIVE NewHighlights(_, _)
NewHighlights(existingContent, rows) ==
    IF rows = << >> THEN [ text |-> EmptyText, added |-> 0 ]
    ELSE LET rest == NewHighlights(existingContent, Tail(rows))
         IN  IF IsNewRow(existingContent, Head(rows))
             THEN [ text |-> TextConcat(HighlightBlock(Head(rows)), rest.text),
                    added |-> rest.added + 1 ]
             ELSE rest

NoFile == << >>

\* The whole pass on the file of one book: file is the stored text or
\* NoFile, rows the result of the query, tfile whether the vault resolves
\* the path to a TFile when the stats are cached.  Yields the stored text
\* after the pass and what the pass did.
syncToIntermediateNote(file, title, rows, tfile) ==
    IF rows = << >>
    THEN [ file |-> file, wrote |-> FALSE, added |-> 0,
           notice |-> "none", log |-> "No highlights found" ]
    ELSE
    LET fileExists == file # NoFile
        existingContent == IF fileExists THEN file ELSE createNoteHeader(title)
        new == NewHighlights(existingContent, rows)
        updatedContent ==
            TextConcat(TextConcat(TextTrimEnd(existingContent),
                                  << << >>, << >>, << >> >>),
                       TextTrim(new.text))
        Cached(t) == IF tfile THEN recomputeAndCacheStats(t) ELSE t
    IN  IF new.added > 0
        THEN [ file |-> Cached(updatedContent), wrote |-> TRUE,
               added |-> new.added, notice |-> "added", log |-> "none" ]
        ELSE IF ~fileExists
        THEN [ file |-> Cached(existingContent), wrote |-> TRUE,
               added |-> 0, notice |-> "created", log |-> "none" ]
        ELSE [ file |-> file, wrote |-> FALSE,
               added |-> 0, notice |-> "all synced", log |-> "none" ]

(***************************************************************************)
(* extractHighlightsToNotes and its helpers (the plugin class)             *)
(***************************************************************************)
LETTERS == { "a", "b", "c", "d", "e", "f", "g", "h", "i", "j", "k", "l", "m",
             "n", "o", "p", "q", "r", "s", "t", "u", "v", "w", "x", "y", "z",
             "A", "B", "C", "D", "E", "F", "G", "H", "I", "J", "K", "L", "M",
             "N", "O", "P", "Q", "R", "S", "T", "U", "V", "W", "X", "Y", "Z" }
DIGITS == { "0", "1", "2", "3", "4", "5", "6", "7", "8", "9" }

\* [A-Za-z0-9_-]
IsIdChar(c) == c \in LETTERS \cup DIGITS \cup { "_", "-" }

\* [\\/:*?"<>|]
IsUnsafeChar(c) == c \in { "\\", "/", ":", "*", "?", "\"", "<", ">", "|" }

\* line.replace(/^\s*-\s*\[x\]\s*/, "")
StripCheckbox(line) ==
    LET a == SkipWs(line, 1)
        b == SkipWs(line, a + 1)
    IN  IF StartsWithAt(line, << "-" >>, a)
           /\ StartsWithAt(line, << "[", "x", "]" >>, b)
        THEN SubSeq(line, SkipWs(line, b + 3), Len(line))
        ELSE line

\* s.replace(/^_\s*/, "")
StripUnderscore(s) ==
    IF StartsWith(s, << "_" >>) THEN SubSeq(s, SkipWs(s, 2), Len(s)) ELSE s

\* the title the scan derives from a line
InsightTitle(line) == TrimL(StripUnderscore(TrimL(StripCheckbox(line))))

\* the scan: the indexes (1-based) of the lines pushed to targets
IsTarget(line) == Includes(line, CHECKED) /\ Len(InsightTitle(line)) > 0

Targets(lines) == { i \in 1..Len(lines) : IsTarget(lines[i]) }

\* line.match(/id:\s*([A-Za-z0-9_-]+)/): the capture of the leftmost match,
\* << >> when the line has no match
IdMatch(line) ==
    LET Starts == { i \in 1..Len(line) :
                      /\ StartsWithAt(line, ID_KEY, i)
                      /\ SkipWs(line, i + 3) <= Len(line)
                      /\ IsIdChar(line[SkipWs(line, i + 3)]) }
    IN  IF Starts = {} THEN << >>
        ELSE LET i == CHOOSE i \in Starts : \A j \in Starts : i <= j
                 b == SkipWs(line, i + 3)
                 e == CHOOSE e \in b..Len(line) :
                        /\ \A j \in b..e : IsIdChar(line[j])
                        /\ (e = Len(line) \/ ~IsIdChar(line[e + 1]))
             IN  SubSeq(line, b, e)

\* line.replace(/^>\s?/, "") for a line that starts with ">"
StripQuotePrefix(line) ==
    IF Len(line) >= 2 /\ IsWs(line[2]) THEN SubSeq(line, 3, Len(line))
    ELSE SubSeq(line, 2, Len(line))

\* the loop of collectQuoteBlockUpwards from index k (1-based) down to the
\* first line, with the values of quoteLines, started and bId so far
RECURSIVE CollectUp(_, _, _, _, _)
CollectUp(lines, k, quoteLines, started, bId) ==
    IF k < 1 THEN [ quoteLines |-> quoteLines, bookmarkId |-> bId ]
    ELSE
    LET line == lines[k]
        id == IF Includes(line, ID_KEY) /\ IdMatch(line) # << >>
              THEN IdMatch(line) ELSE bId
    IN  IF StartsWith(line, << ">" >>)
        THEN CollectUp(lines, k - 1,
                 IF ~Includes(line, CALLOUT_TAG) /\ ~Includes(line, HTML_OPEN)
                 THEN << StripQuotePrefix(line) >> \o quoteLines
                 ELSE quoteLines,
                 TRUE, id)
        ELSE IF started
        THEN [ quoteLines |-> quoteLines, bookmarkId |-> id ]
        ELSE CollectUp(lines, k - 1, quoteLines, FALSE, id)

\* quoteLines.join("\n")
JoinLines(ls) == IF ls = << >> THEN EmptyText ELSE ls

collectQuoteBlockUpwards(lines, fromIndex) ==
    LET r == CollectUp(lines, fromIndex - 1, << >>, FALSE, << >>)
    IN  [ quoteContent |-> JoinLines(r.quoteLines),
          bookmarkId |-> r.bookmarkId ]

\* title.replace(/^\s*memo::\s*/i, "").trim()
NormalizedTitle(title) ==
    LET a == SkipWs(title, 1)
        IsMemoKey ==
            /\ a + 5 <= Len(title)
            /\ title[a] \in { "m", "M" }
            /\ title[a + 1] \in { "e", "E" }
            /\ title[a + 2] \in { "m", "M" }
            /\ title[a + 3] \in { "o", "O" }
            /\ title[a + 4] = ":"
            /\ title[a + 5] = ":"
    IN  TrimL(IF IsMemoKey
              THEN SubSeq(title, SkipWs(title, a + 6), Len(title))
              ELSE title)

\* s.replace(/\s+/g, " "): a run of white space keeps its first character,
\* as a space
CollapseWs(s) ==
    LET indexed == [ i \in 1..Len(s) |-> << i, s[i] >> ]
        Kept(p) == ~IsWs(p[2]) \/ p[1] = 1 \/ ~IsWs(s[p[1] - 1])
        kept == SelectSeq(indexed, Kept)
    IN  [ i \in 1..Len(kept) |->
            IF IsWs(kept[i][2]) THEN " " ELSE kept[i][2] ]

MaxFileName == 120

sanitizeFileName(name) ==
    LET spaced == [ i \in 1..Len(name) |->
                      IF IsUnsafeChar(name[i]) THEN " " ELSE name[i] ]
    IN  Slice(TrimL(CollapseWs(spaced)), MaxFileName)

\* settings.insightFolder (DEFAULT_SETTINGS)
InsightFolder == << "k", "o", "b", "o", "-",
                    "i", "n", "s", "i", "g", "h", "t", "s" >>
MD_EXT == << ".", "m", "d" >>

\* normalizePath(`${folder}/${safe}.md`) for a safe file name
InsightPath(safe) == InsightFolder \o << "/" >> \o safe \o MD_EXT

NoPath == << >>

\* What the storage does to a pass, chosen by the environment: kind "none",
\* or one failure.  "createFolder" and "create" make the call of that name
\* throw in createNewInsightNote for the target targets[at]; "modify" makes
\* vault.modify throw; "stats" makes the stats step throw.
NoFault == [ kind |-> "none", at |-> 0 ]

FaultAt(fault, j) == IF fault.at = j THEN fault.kind ELSE "none"

\* createNewInsightNote with the failure of vault.create leaving the call
createNewInsightNote_NoCatch(notes, folder, title, quote, bookTitle, bookmarkId, fault) ==
    LET normalizedTitle == NormalizedTitle(title)
        path == InsightPath(sanitizeFileName(normalizedTitle))
        note == [ path |-> path, title |-> normalizedTitle,
                  book |-> bookTitle, bookmark |-> bookmarkId,
                  callout |-> title,
                  quoteBody |-> [ k \in 1..Len(TextTrim(quote)) |->
                                    << ">", " " >> \o TextTrim(quote)[k] ] ]
    IN  IF normalizedTitle = << >>
        THEN [ path |-> NoPath, notes |-> notes, folder |-> folder,
               made |-> FALSE, threw |-> FALSE ]
        ELSE IF ~folder /\ fault = "createFolder"
        THEN [ path |-> NoPath, notes |-> notes, folder |-> FALSE,
               made |-> FALSE, threw |-> TRUE ]
        ELSE IF fault = "create" \/ \E n \in notes : n.path = path
        THEN [ path |-> NoPath, notes |-> notes, folder |-> TRUE,
               made |-> FALSE, threw |-> TRUE ]
        ELSE [ path |-> path, notes |-> notes \cup { note }, folder |-> TRUE,
               made |-> TRUE, threw |-> FALSE ]

\* createNewInsightNote on the set of stored insight notes; folder tells
\* whether the insight folder exists.  A note is held by the values the
\* template of its content is filled with.  Yields the returned path (NoPath
\* for null), the notes and the folder afterwards, whether vault.create made
\* the file, and whether the call threw (createFolder is outside the try).
createNewInsightNote(notes, folder, title, quote, bookTitle, bookmarkId, fault) ==
    LET normalizedTitle == NormalizedTitle(title)
        path == InsightPath(sanitizeFileName(normalizedTitle))
        note == [ path |-> path, title |-> normalizedTitle,
                  book |-> bookTitle, bookmark |-> bookmarkId,
                  callout |-> title,
                  quoteBody |-> [ k \in 1..Len(TextTrim(quote)) |->
                                    << ">", " " >> \o TextTrim(quote)[k] ] ]
    IN  IF normalizedTitle = << >>
        THEN [ path |-> NoPath, notes |-> notes, folder |-> folder,
               made |-> FALSE, threw |-> FALSE ]
        ELSE IF ~folder /\ fault = "createFolder"
        THEN [ path |-> NoPath, notes |-> notes, folder |-> FALSE,
               made |-> FALSE, threw |-> TRUE ]
        ELSE IF fault = "create" \/ \E n \in notes : n.path = path
        THEN [ path |-> path, notes |-> notes, folder |-> TRUE,
               made |-> FALSE, threw |-> FALSE ]
        ELSE [ path |-> path, notes |-> notes \cup { note }, folder |-> TRUE,
               made |-> TRUE, threw |-> FALSE ]

\* the path written as it is
LinkTarget_Keep(path) == path

\* createdPath.replace(/\.md$/i, "")
LinkTarget(path) ==
    LET n == Len(path)
    IN  IF n >= 3 /\ path[n - 2] = "." /\ path[n - 1] \in { "m", "M" }
           /\ path[n] \in { "d", "D" }
        THEN SubSeq(path, 1, n - 3) ELSE path

InsightLinkLine(path) ==
    << "-", " " >> \o INSIGHT_LINK_PREFIX \o << " ", "[", "[" >>
        \o LinkTarget(path) \o << "]", "]" >>

\* targets as the array the scan builds, in ascending order of index
RECURSIVE SortedSeq(_)
SortedSeq(S) ==
    IF S = {} THEN << >>
    ELSE LET m == CHOOSE m \in S : \A o \in S : m <= o
         IN  << m >> \o SortedSeq(S \ { m })

\* the body of the loop for the target at line index once the note was
\* asked for: st holds the values of newLines, the stored notes, the folder
\* and createdCount before it, made is what createNewInsightNote yielded
TargetMade(index, st, made) ==
    IF made.threw
    THEN [ st EXCEPT !.notes = made.notes, !.folder = made.folder,
                     !.threw = TRUE ]
    ELSE [ newLines |->
             IF made.path # NoPath
             THEN SubSeq(st.newLines, 1, index - 1)
                    \o << EMPTY_MEMO_LINE, InsightLinkLine(made.path) >>
                    \o SubSeq(st.newLines, index + 1, Len(st.newLines))
             ELSE [ st.newLines EXCEPT ![index] = EMPTY_MEMO_LINE ],
           notes |-> made.notes, folder |-> made.folder,
           createdCount |-> st.createdCount + 1, threw |-> FALSE ]

\* one turn of the loop without the test of the quote
TargetStep_NoSkip(lines, index, st, bookTitle, fault, result) ==
    TargetMade(index, st,
        createNewInsightNote(st.notes, st.folder, InsightTitle(lines[index]),
            result.quoteContent, bookTitle, result.bookmarkId, fault))

\* one turn of the loop on the state st of the loop
TargetStep(lines, index, st, bookTitle, fault, result) ==
    IF TextTrim(result.quoteContent) = EmptyText THEN st
    ELSE TargetMade(index, st,
             createNewInsightNote(st.notes, st.folder, InsightTitle(lines[index]),
                 result.quoteContent, bookTitle, result.bookmarkId, fault))

\* the loop over targets[1..j], from the last to the first; a call that
\* throws ends the loop and the pass
RECURSIVE ProcessTargets(_, _, _, _, _, _)
ProcessTargets(lines, targets, j, st, bookTitle, fault) ==
    IF j < 1 \/ st.threw THEN st
    ELSE ProcessTargets(lines, targets, j - 1,
             TargetStep(lines, targets[j], st, bookTitle, FaultAt(fault, j),
                        collectQuoteBlockUpwards(lines, targets[j])),
             bookTitle, fault)

\* the stats step of the pass: the TFile of the pass is at hand
updateIntermediateNoteStats(text) ==
    processFrontMatter(text, computeIntermediateStats(text))

\* the end of the pass: nothing is written when the scan found no target or
\* a call threw; otherwise newLines is stored, the stats are cached (a
\* failure of that step is caught and logged) and the count is announced
ExtractReport(file, notes, folder, targets, fault, done) ==
    IF targets = << >>
    THEN [ file |-> file, notes |-> notes, folder |-> folder,
           wrote |-> FALSE, createdCount |-> 0, notice |-> "no target",
           threw |-> FALSE ]
    ELSE IF done.threw \/ fault.kind = "modify"
    THEN [ file |-> file, notes |-> done.notes, folder |-> done.folder,
           wrote |-> FALSE, createdCount |-> done.createdCount,
           notice |-> "none", threw |-> TRUE ]
    ELSE [ file |-> IF fault.kind = "stats" THEN done.newLines
                    ELSE updateIntermediateNoteStats(done.newLines),
           notes |-> done.notes, folder |-> done.folder, wrote |-> TRUE,
           createdCount |-> done.createdCount, notice |-> "created",
           threw |-> FALSE ]

ReverseSeq(seq) == [ i \in 1..Len(seq) |-> seq[Len(seq) + 1 - i] ]

\* the pass with the loop running from the first target to the last
ExtractTargets_Forward(file, notes, folder, bookTitle, targets, fault) ==
    ExtractReport(file, notes, folder, targets, fault,
        ProcessTargets(file, ReverseSeq(targets), Len(targets),
            [ newLines |-> file, notes |-> notes, folder |-> folder,
              createdCount |-> 0, threw |-> FALSE ],
            bookTitle, fault))

\* the pass once the scan has built targets
ExtractTargets(file, notes, folder, bookTitle, targets, fault) ==
    ExtractReport(file, notes, folder, targets, fault,
        ProcessTargets(file, targets, Len(targets),
            [ newLines |-> file, notes |-> notes, folder |-> folder,
              createdCount |-> 0, threw |-> FALSE ],
            bookTitle, fault))

\* The whole pass on the stored text of one intermediate note.
extractHighlightsToNotes(file, notes, folder, bookTitle, fault) ==
    ExtractTargets(file, notes, folder, bookTitle, SortedSeq(Targets(file)), fault)

(***************************************************************************)
(* Inputs of the model                                                     *)
(***************************************************************************)
\* book titles; sanitize(title) is the title itself for these, so that the
\* file of a book is named by its title
Books == { "A", "B", "C" }

Title(b) == << b >>

B1 == << "b", "1" >>
B2 == << "b", "2" >>
B3 == << "b", "3" >>
TxtPlain == << << "q" >> >>
TxtTwoLines == << << "q" >>, << "r" >> >>
\* a highlight whose text starts with the tag of a callout
TxtCallout == << CALLOUT_TAG \o << " ", "q" >> >>
\* a highlight of two lines, the second one an item of a check list
TxtChecklist == << << "q" >>, CHECKED \o << " ", "a" >> >>
\* a highlight whose text quotes the search string of row b2
TxtWithId == << IdNeedle(B2) >>

Row(id, text, annotation) ==
    [ id |-> id, text |-> text, annotation |-> annotation ]

\* rows of the bookmark table: BookmarkID is its primary key, so the rows
\* of one query result have distinct ids
DistinctIds(rows) ==
    \A i, j \in 1..Len(rows) : i # j => rows[i].id # rows[j].id

SeqsUpTo(S, n) == UNION { [ 1..k -> S ] : k \in 0..n }

QueryResults(rowSet) == { rows \in SeqsUpTo(rowSet, MaxRows) : DistinctIds(rows) }

SyncRows == { Row(B1, TxtWithId, << "n" >>), Row(B2, TxtTwoLines, << >>),
              Row(B3, TxtPlain, << >>) }

(***************************************************************************)
(* The bookmark table and its two readers                                  *)
(***************************************************************************)
\* a row of the bookmark table; nulls names its columns that are NULL
SourceRow(id, text, contentId, nulls) ==
    [ id |-> id, text |-> text, contentId |-> contentId,
      annotation |-> << >>, dateCreated |-> NowIso, nulls |-> nulls ]

\* text.split("\n").join(" "): \s matches a line break as it matches a space
RECURSIVE JoinSpace(_)
JoinSpace(t) ==
    IF t = << >> THEN << >>
    ELSE IF Len(t) = 1 THEN Head(t)
    ELSE Head(t) \o << " " >> \o JoinSpace(Tail(t))

\* the record getAllBookmark pushes for a row
Bookmark(row) ==
    [ bookmarkId |-> row.id,
      text |-> TrimL(CollapseWs(JoinSpace(row.text))),
      contentId |-> row.contentId,
      note |-> row.annotation,
      dateCreated |-> row.dateCreated ]

\* where Text is not null
TextNotNull(row) == "Text" \notin row.nulls

\* the rows the loop does not skip
HasRequired(row) ==
    row.nulls \cap { "BookmarkID", "Text", "ContentID", "DateCreated" } = {}

\* Repository.getAllBookmark over the rows in the order of the query
RECURSIVE getAllBookmark(_)
getAllBookmark(table) ==
    IF table = << >> THEN << >>
    ELSE IF TextNotNull(Head(table)) /\ HasRequired(Head(table))
    THEN << Bookmark(Head(table)) >> \o getAllBookmark(Tail(table))
    ELSE getAllBookmark(Tail(table))

\* the query of syncToIntermediateNote for a book: the rows of the book with
\* a text, as BookmarkID, Text, Annotation
RECURSIVE highlightQuery(_, _)
highlightQuery(table, b) ==
    IF table = << >> THEN << >>
    ELSE IF TextNotNull(Head(table)) /\ "ContentID" \notin Head(table).nulls
            /\ Head(table).contentId = b
    THEN << Row(Head(table).id, Head(table).text, Head(table).annotation) >>
             \o highlightQuery(Tail(table), b)
    ELSE highlightQuery(Tail(table), b)

\* a text with a run of white space
TxtSpaced == << << "q", " ", " ", "r" >> >>

SourceRows ==
    { SourceRow(B1, TxtSpaced, "A", {}),
      SourceRow(B2, TxtPlain, "A", { "DateCreated" }),
      SourceRow(B3, << >>, "A", { "Text" }) }

Tables == { t \in SeqsUpTo(SourceRows, MaxRows) : DistinctIds(t) }

\* the orders in which a set of selected books is iterated
Orders(sel) ==
    { o \in SeqsUpTo(sel, Cardinality(sel)) :
        Len(o) = Cardinality(sel) /\ \A i, j \in 1..Len(o) : i # j => o[i] # o[j] }

(***************************************************************************)
(* State                                                                   *)
(***************************************************************************)
VARIABLES
    docs,     \* the intermediate note of each book: its text, or NoFile
    notes,    \* the insight notes stored in the insight folder
    queue,    \* the selected books the click handler has still to sync
    selected, \* the books selected at the last click
    db,       \* the rows the opened database yields for each book
    folder,   \* whether the insight folder exists
    passes,   \* the extraction passes that have read their note and not written
    hist      \* the last pass or edit: what it was given and what it did

vars == << docs, notes, queue, selected, db, folder, passes, hist >>

\* op: "sync", "extract" or "edit"; book: the book of the note; pre: the
\* stored text before the pass; rows: the query result of a sync pass;
\* again: whether the pass before was a sync pass of the same book with the
\* same rows, or, for an extraction pass, an extraction pass that wrote the
\* same note; count: the number the pass reports; wrote: whether the body
\* of the note was written; made: the insight notes the pass stored; kept:
\* whether every insight note stored before the pass is stored unchanged;
\* threw: whether the pass ended by an exception; fault: what the storage
\* answered; retry: whether the pass runs on the text of an extraction pass
\* that made insight notes and threw before its write, with nothing but
\* failing passes in between
NoHist == [ op |-> "none", book |-> "A", pre |-> NoFile, rows |-> << >>,
            again |-> FALSE, count |-> 0, wrote |-> FALSE, made |-> {},
            kept |-> TRUE, notice |-> "none", log |-> "none",
            threw |-> FALSE, fault |-> NoFault, retry |-> FALSE ]

Closed == [ b \in Books |-> << >> ]

Init ==
    /\ docs = [ b \in Books |-> NoFile ]
    /\ notes = {}
    /\ queue = << >>
    /\ selected = {}
    /\ db = Closed
    /\ folder = FALSE
    /\ passes = << >>
    /\ hist = NoHist

(***************************************************************************)
(* Operations                                                              *)
(***************************************************************************)
\* goButtonEl click: the database is opened and the loop over the selected
\* books starts
Click(order, rowsOf) ==
    /\ queue = << >>
    /\ order # << >>
    /\ queue' = order
    /\ selected' = { order[i] : i \in 1..Len(order) }
    /\ db' = rowsOf
    /\ UNCHANGED << docs, notes, folder, passes, hist >>

\* one turn of the loop: syncToIntermediateNote for the next selected book
SyncNext ==
    /\ queue # << >>
    /\ LET b == Head(queue)
       IN  \E tfile \in (IF docs[b] = NoFile THEN BOOLEAN ELSE { TRUE }) :
             LET r == syncToIntermediateNote(docs[b], Title(b), db[b], tfile)
             IN  /\ docs' = [ docs EXCEPT ![b] = r.file ]
                 /\ hist' = [ op |-> "sync", book |-> b, pre |-> docs[b],
                              rows |-> db[b],
                              again |-> /\ hist.op = "sync"
                                        /\ hist.book = b
                                        /\ hist.rows = db[b],
                              count |-> r.added, wrote |-> r.wrote,
                              made |-> {}, kept |-> TRUE,
                              notice |-> r.notice, log |-> r.log,
                              threw |-> FALSE, fault |-> NoFault,
                              retry |-> FALSE ]
    /\ queue' = Tail(queue)
    /\ db' = IF Tail(queue) = << >> THEN Closed ELSE db
    /\ UNCHANGED << notes, selected, folder, passes >>

\* the storage calls of a sync pass over book b that can throw: createFolder
\* when the folder of the notes may be missing, adapter.read of an existing
\* note, adapter.write and the calls of recomputeAndCacheStats when the pass
\* writes
SyncFaults(b, r) ==
    { k \in { "createFolder" } : \A c \in Books : docs[c] = NoFile }
    \cup { k \in { "read" } : docs[b] # NoFile /\ db[b] # << >> }
    \cup { k \in { "write", "stats" } : r.wrote }

\* one turn of the loop in which a storage call throws: the exception leaves
\* syncToIntermediateNote and the click handler, which catches nothing, so
\* the loop ends without db.close(); only a failure after adapter.write
\* leaves new text
SyncThrow ==
    /\ queue # << >>
    /\ LET b == Head(queue)
       IN  \E r \in { syncToIntermediateNote(docs[b], Title(b), db[b], FALSE) } :
             \E kind \in SyncFaults(b, r) :
               /\ docs' = [ docs EXCEPT
                              ![b] = IF kind = "stats" THEN r.file ELSE @ ]
               /\ hist' = [ op |-> "sync", book |-> b, pre |-> docs[b],
                            rows |-> db[b], again |-> FALSE, count |-> 0,
                            wrote |-> kind = "stats", made |-> {},
                            kept |-> TRUE, notice |-> "none", log |-> "none",
                            threw |-> TRUE,
                            fault |-> [ kind |-> kind, at |-> 0 ],
                            retry |-> FALSE ]
    /\ queue' = << >>
    /\ UNCHANGED << notes, selected, db, folder, passes >>

\* the faults the storage may answer a pass over the text with
Faults(text) ==
    { NoFault, [ kind |-> "modify", at |-> 0 ], [ kind |-> "stats", at |-> 0 ] }
    \cup [ kind : { "createFolder", "create" },
           at : 1..Cardinality(Targets(text)) ]

\* the extract command or the button of the note on the note of book b,
\* with the storage answering with fault
Extract(b, fault) ==
    /\ queue = << >>
    /\ docs[b] # NoFile
    /\ computeIntermediateStats(docs[b]).insights_created
         + Cardinality(Targets(docs[b])) <= MaxLinks
    /\ \E r \in { extractHighlightsToNotes(docs[b], notes, folder, Title(b), fault) } :
           /\ docs' = [ docs EXCEPT ![b] = r.file ]
           /\ notes' = r.notes
           /\ folder' = r.folder
           /\ hist' = [ op |-> "extract", book |-> b, pre |-> docs[b],
                        rows |-> << >>,
                        again |-> /\ hist.op = "extract"
                                  /\ hist.book = b
                                  /\ hist.wrote,
                        count |-> r.createdCount, wrote |-> r.wrote,
                        made |-> r.notes \ notes,
                        kept |-> notes \subseteq r.notes,
                        notice |-> r.notice, log |-> "none",
                        threw |-> r.threw, fault |-> fault,
                        retry |-> /\ hist.op = "extract"
                                  /\ hist.book = b
                                  /\ hist.threw
                                  /\ ~hist.wrote
                                  /\ (hist.made # {} \/ hist.retry) ]
    /\ UNCHANGED << queue, selected, db, passes >>

\* the extraction passes that can be between their read and their write at
\* the same time
MaxPasses == 2

\* the command or the in-note button starts extractHighlightsToNotes: the
\* pass reads the note and waits; neither handler looks whether another pass
\* is running
ExtractBegin(b) ==
    /\ queue = << >>
    /\ docs[b] # NoFile
    /\ Len(passes) < MaxPasses
    /\ computeIntermediateStats(docs[b]).insights_created
         + Cardinality(Targets(docs[b])) <= MaxLinks
    /\ passes' = Append(passes, [ book |-> b, content |-> docs[b] ])
    /\ UNCHANGED << docs, notes, queue, selected, db, folder, hist >>

\* a waiting pass goes on from the text it read to its write and its notice
ExtractEnd(i) ==
    /\ i \in 1..Len(passes)
    /\ \E r \in { extractHighlightsToNotes(passes[i].content, notes, folder,
                                           Title(passes[i].book), NoFault) } :
           /\ docs' = [ docs EXCEPT
                          ![passes[i].book] = IF r.wrote THEN r.file ELSE @ ]
           /\ notes' = r.notes
           /\ folder' = r.folder
           /\ hist' = [ op |-> "extract", book |-> passes[i].book,
                        pre |-> passes[i].content, rows |-> << >>,
                        again |-> FALSE,
                        count |-> r.createdCount, wrote |-> r.wrote,
                        made |-> r.notes \ notes,
                        kept |-> notes \subseteq r.notes,
                        notice |-> r.notice, log |-> "none",
                        threw |-> r.threw, fault |-> NoFault,
                        retry |-> FALSE ]
    /\ passes' = SubSeq(passes, 1, i - 1) \o SubSeq(passes, i + 1, Len(passes))
    /\ UNCHANGED << queue, selected, db >>

\* a reader of the database asks the repository for every bookmark
Import(table) ==
    /\ queue = << >>
    /\ hist' = [ NoHist EXCEPT !.op = "import", !.pre = table,
                               !.rows = getAllBookmark(table) ]
    /\ UNCHANGED << docs, notes, queue, selected, db, folder, passes >>

\* /^\s*-\s*\[[ xX]\]\s*memo::.*$/m on one line: the memo line of a block
IsMemoLine(line) ==
    LET a == SkipWs(line, 1)
        b == SkipWs(line, a + 1)
        c == SkipWs(line, b + 3)
    IN  /\ StartsWithAt(line, << "-" >>, a)
        /\ StartsWithAt(line, << "[" >>, b)
        /\ b + 2 <= Len(line)
        /\ line[b + 1] \in { " ", "x", "X" }
        /\ line[b + 2] = "]"
        /\ StartsWithAt(line, MEMO_KEY, c)

UNCHECKED_BOX == << "-", " ", "[", " ", "]", " " >>
CHECKED_BOX == CHECKED \o << " " >>
MemoT == << "T" >>
\* a memo that quotes a checked checkbox
MemoWithBox == << "a", " " >> \o CHECKED \o << " ", "b" >>

\* what the user leaves on the control line of a highlight
MemoEdits ==
    { CHECKED_BOX \o MEMO_KEY \o << " " >> \o MemoT,
      UNCHECKED_BOX \o MEMO_KEY \o << " " >> \o MemoT,
      CHECKED_BOX \o MEMO_KEY \o << " " >>,
      CHECKED_BOX \o << "_" >> }

\* a memo whose text holds the characters of a checked checkbox
BoxEdits == { CHECKED_BOX \o MEMO_KEY \o << " " >> \o MemoWithBox }

IsControlLine(line) == IsMemoLine(line) \/ line = CHECKED_BOX \o << "_" >>

\* the user edits the control line at index k of the note of book b
UserEditMemo(b, k, line) ==
    /\ queue = << >>
    /\ docs[b] # NoFile
    /\ k \in 1..Len(docs[b])
    /\ IsControlLine(docs[b][k])
    /\ docs[b][k] # line
    /\ docs' = [ docs EXCEPT ![b][k] = line ]
    /\ hist' = [ NoHist EXCEPT !.op = "edit", !.book = b ]
    /\ UNCHANGED << notes, queue, selected, db, folder, passes >>

(***************************************************************************)
(* Specifications                                                          *)
(***************************************************************************)
OnlyBook(b, rows) == [ c \in Books |-> IF c = b THEN rows ELSE << >> ]

\* one book: sync passes, memo edits and extraction passes
MainQueries == { << >>, << Row(B1, TxtPlain, << >>) >>,
                 << Row(B1, TxtPlain, << >>), Row(B2, TxtTwoLines, << "n" >>) >> }

ClickOne == \E rows \in MainQueries : Click(<< "A" >>, OnlyBook("A", rows))

UserEdit == \E k \in 1..Len(docs["A"]), line \in MemoEdits : UserEditMemo("A", k, line)

ExtractOne == Extract("A", NoFault)

Next == ClickOne \/ SyncNext \/ UserEdit \/ ExtractOne

Spec == Init /\ [][Next]_vars

\* one book with one highlight, and a user whose memo quotes a checkbox
ClickBox == Click(<< "A" >>, OnlyBook("A", << Row(B1, TxtPlain, << >>) >>))

UserEditBox == \E k \in 1..Len(docs["A"]), line \in BoxEdits : UserEditMemo("A", k, line)

NextBox == ClickBox \/ SyncNext \/ UserEditBox \/ ExtractOne

SpecBox == Init /\ [][NextBox]_vars

\* one book with two highlights, memos with two titles, and a storage that
\* may fail during an extraction pass
MemoU == << "U" >>

FaultEdits ==
    { CHECKED_BOX \o MEMO_KEY \o << " " >> \o MemoT,
      CHECKED_BOX \o MEMO_KEY \o << " " >> \o MemoU }

ClickFault ==
    Click(<< "A" >>, OnlyBook("A", << Row(B1, TxtPlain, << >>),
                                      Row(B2, TxtTwoLines, << "n" >>) >>))

UserEditFault ==
    \E k \in 1..Len(docs["A"]), line \in FaultEdits : UserEditMemo("A", k, line)

ExtractFaulty == \E fault \in Faults(docs["A"]) : Extract("A", fault)

NextFault == ClickFault \/ SyncNext \/ UserEditFault \/ ExtractFaulty

SpecFault == Init /\ [][NextFault]_vars

\* an extraction pass threw before vault.modify: the note holds the text the
\* pass read
Unwritten == hist.op = "extract" /\ hist.threw /\ ~hist.wrote

\* the user who syncs the book once and runs the command again on the note
\* as it is after a pass that failed: no edit comes between the failure and
\* the next pass, and a pass that the storage lets through comes at last
ClickRetry == docs["A"] = NoFile /\ ClickFault

UserEditRetry == ~Unwritten /\ UserEditFault

\* the storage lets the pass through or fails at vault.modify
ExtractFailing ==
    \E fault \in { NoFault, [ kind |-> "modify", at |-> 0 ] } :
        Extract("A", fault)

NextRetry == ClickRetry \/ SyncNext \/ UserEditRetry \/ ExtractFailing

\* the pass run again on the text of a pass that threw before its write
ExtractRetry == Unwritten /\ ExtractOne

\* weak fairness of ExtractRetry, written out: ExtractRetry is enabled
\* exactly where Unwritten holds, since the pass that threw ran on the text
\* the note still holds and a pass the storage lets through writes it
SpecRetry ==
    /\ Init
    /\ [][NextRetry]_vars
    /\ ([]<>(~Unwritten) \/ []<><<ExtractRetry>>_vars)

\* titles that sanitizeFileName changes: an unsafe character, one character
\* more than a file name keeps, and a title that ends like a note file
LongTitle == [ i \in 1..(MaxFileName + 1) |-> "a" ]

NameEdits ==
    { CHECKED_BOX \o MEMO_KEY \o << " " >> \o title :
        title \in { << "T", "?", "U" >>, LongTitle, << "T" >> \o MD_EXT } }

\* one book with one highlight, memos with such titles, and a storage in
\* which the creation of the file of a note may fail
UserEditNames ==
    \E k \in 1..Len(docs["A"]), line \in NameEdits : UserEditMemo("A", k, line)

ExtractNames ==
    \E fault \in { NoFault, [ kind |-> "create", at |-> 1 ] } : Extract("A", fault)

NextNames == ClickBox \/ SyncNext \/ UserEditNames \/ ExtractNames

SpecNames == Init /\ [][NextNames]_vars

\* one book whose highlight quotes an item of a check list: sync passes,
\* memo edits and extraction passes
ClickChecklist ==
    Click(<< "A" >>, OnlyBook("A", << Row(B1, TxtChecklist, << >>) >>))

NextChecklist == ClickChecklist \/ SyncNext \/ UserEdit \/ ExtractOne

SpecChecklist == Init /\ [][NextChecklist]_vars

\* one book with two highlights and memos with two titles, a storage that
\* does not fail
NextOrder == ClickFault \/ SyncNext \/ UserEditFault \/ ExtractOne

SpecOrder == Init /\ [][NextOrder]_vars

\* one book whose first highlight quotes the tag of a callout or the search
\* string of an id: sync passes, memo edits and extraction passes
StatsQueries ==
    { << Row(B1, TxtCallout, << >>) >>,
      << Row(B1, TxtCallout, << >>), Row(B2, TxtPlain, << >>) >>,
      << Row(B1, TxtWithId, << >>) >> }

ClickStats == \E rows \in StatsQueries : Click(<< "A" >>, OnlyBook("A", rows))

NextStats == ClickStats \/ SyncNext \/ UserEdit \/ ExtractOne

SpecStats == Init /\ [][NextStats]_vars

\* one book: sync passes over every kind of row
ClickSync == \E rows \in QueryResults(SyncRows) : Click(<< "A" >>, OnlyBook("A", rows))

NextSync == ClickSync \/ SyncNext

SpecSync == Init /\ [][NextSync]_vars

\* a batch over several selected books, each with one row or none
BatchRows == { << >>, << Row(B1, TxtPlain, << >>) >> }

ClickBatch ==
    \E sel \in (SUBSET Books) \ { {} } :
        \E order \in Orders(sel), rowsOf \in [ Books -> BatchRows ] :
            Click(order, rowsOf)

NextBatch == ClickBatch \/ SyncNext

SpecBatch == Init /\ [][NextBatch]_vars

\* a batch over two books whose storage may throw
ClickAbort ==
    \E sel \in (SUBSET { "A", "B" }) \ { {} } :
        \E order \in Orders(sel), rowsOf \in [ Books -> BatchRows ] :
            rowsOf["C"] = << >> /\ Click(order, rowsOf)

NextAbort == ClickAbort \/ SyncNext \/ SyncThrow

SpecAbort == Init /\ [][NextAbort]_vars

\* one book: sync passes, memo edits and extraction passes started while
\* another one waits
RaceQueries == { << Row(B1, TxtPlain, << >>) >> }

ClickRace == \E rows \in RaceQueries : Click(<< "A" >>, OnlyBook("A", rows))

BeginOne == ExtractBegin("A")

EndOne == \E i \in 1..Len(passes) : ExtractEnd(i)

NextRace == ClickRace \/ SyncNext \/ UserEdit \/ BeginOne \/ EndOne

SpecRace == Init /\ [][NextRace]_vars

\* one book whose table holds rows with NULL columns: imports and sync passes
ClickImport ==
    \E table \in Tables : Click(<< "A" >>, OnlyBook("A", highlightQuery(table, "A")))

ImportAll == \E table \in Tables : Import(table)

NextImport == ClickImport \/ ImportAll \/ SyncNext

SpecImport == Init /\ [][NextImport]_vars

(***************************************************************************)
(* The notions the properties are stated with                              *)
(***************************************************************************)
\* the text a pass found: nothing when the note did not exist
PreText == IF hist.pre = NoFile THEN EmptyText ELSE hist.pre

PostText == docs[hist.book]

\* the id marker line of a highlight block
MarkerLine(id) ==
    << ">", " " >> \o HTML_OPEN \o << " " >> \o IdNeedle(id)
        \o << " " >> \o HTML_CLOSE

MarkerIdx(text, id) == { k \in 1..Len(text) : text[k] = MarkerLine(id) }

IsMarkerLine(line) ==
    /\ StartsWith(line, << ">", " " >> \o HTML_OPEN \o << " " >> \o ID_KEY)
    /\ Len(line) >= 3
    /\ SubSeq(line, Len(line) - 2, Len(line)) = HTML_CLOSE

\* the ids of the marker lines of a text, in the order of the text
MarkerIds(text) ==
    LET ms == SelectSeq(text, IsMarkerLine)
    IN  [ i \in 1..Len(ms) |-> IdMatch(ms[i]) ]

\* the last line of the quote run that holds line m
QuoteRunEnd(text, m) ==
    CHOOSE e \in m..Len(text) :
        /\ \A j \in m..e : StartsWith(text[j], << ">" >>)
        /\ (e = Len(text) \/ ~StartsWith(text[e + 1], << ">" >>))

\* the quoted lines of the block whose marker is line m
BlockQuote(text, m) == SubSeq(text, m + 1, QuoteRunEnd(text, m))

\* the lines between the quote run of the block whose marker is line m and
\* the next block (or the end of the text)
BlockTailIdx(text, m) ==
    LET e == QuoteRunEnd(text, m)
    IN  { k \in (e + 1)..Len(text) :
            \A j \in (e + 1)..k : ~StartsWith(text[j], << ">" >>) }

IsAnnotationLine(line) == StartsWith(line, << ANNOTATION_MARK >>)

\* the first line after the quote run that is neither blank nor the
\* annotation of the device: the control line of the block; 0 if none
ControlIdx(text, m) ==
    LET c == { k \in BlockTailIdx(text, m) :
                 ~IsBlank(text[k]) /\ ~IsAnnotationLine(text[k])
                 /\ text[k] # DASHES }
    IN  IF c = {} THEN 0 ELSE CHOOSE k \in c : \A j \in c : k <= j

\* checkbox (checked or not) and placeholder, no text
IsEmptyMemoLine(line) ==
    /\ IsMemoLine(line)
    /\ LET c == SkipWs(line, SkipWs(line, SkipWs(line, 1) + 1) + 3)
       IN  IsBlank(SubSeq(line, c + Len(MEMO_KEY), Len(line)))

IsUncheckedEmptyMemo(line) == TrimEndL(line) = TrimEndL(EMPTY_MEMO_LINE)

\* a is a prefix of b, as strings
TextPrefix(a, b) ==
    /\ Len(a) <= Len(b)
    /\ \A k \in 1..(Len(a) - 1) : b[k] = a[k]
    /\ StartsWith(b[Len(a)], a[Len(a)])

RowIds(rows) == [ i \in 1..Len(rows) |-> rows[i].id ]

C2_OneBlockPerIdFirstWriterWins ==
    (hist.op = "sync" /\ hist.rows # << >>) =>
        \A i \in 1..Len(hist.rows) :
            LET id == hist.rows[i].id
                post == MarkerIdx(PostText, id)
                pre == MarkerIdx(PreText, id)
            IN  /\ Cardinality(post) = 1
                /\ \A m \in post :
                     IF pre # {}
                     THEN \E n \in pre :
                            BlockQuote(PostText, m) = BlockQuote(PreText, n)
                     ELSE BlockQuote(PostText, m) =
                            CalloutText(hist.rows[i].text) \o << << ">", " " >> >>

(***************************************************************************)
(* C3: a sync pass appends, for every row whose id is not the marker of a  *)
(* block of the note, exactly one block with that marker and the text of   *)
(* the row, followed by an empty unchecked memo line.                      *)
(***************************************************************************)
C3_SyncComplete ==
    (hist.op = "sync" /\ hist.rows # << >>) =>
        \A i \in 1..Len(hist.rows) :
            LET id == hist.rows[i].id
                post == MarkerIdx(PostText, id)
            IN  MarkerIdx(PreText, id) = {} =>
                  /\ Cardinality(post) = 1
                  /\ \A m \in post :
                       /\ BlockQuote(PostText, m) =
                            CalloutText(hist.rows[i].text) \o << << ">", " " >> >>
                       /\ ControlIdx(PostText, m) # 0
                       /\ IsUncheckedEmptyMemo(PostText[ControlIdx(PostText, m)])

(***************************************************************************)
(* C4 as claimed: after a sync pass of an existing note the text before    *)
(* the pass, without its trailing white space, is a prefix of the text     *)
(* after it.                                                               *)
(***************************************************************************)
C4_Original_TextIsPrefix ==
    (hist.op = "sync" /\ hist.pre # NoFile) =>
        TextPrefix(TextTrimEnd(hist.pre), PostText)

IsStatsLine(line) ==
    \/ StartsWith(TrimStartL(line), H_TOTAL_KEY)
    \/ StartsWith(TrimStartL(line), I_CREATED_KEY)
    \/ StartsWith(TrimStartL(line), UPDATED_KEY)

\* the text with the values of the kobo_stats lines of its frontmatter
\* blanked
WithoutStats(text) ==
    [ k \in 1..Len(text) |->
        IF k < FrontMatterEnd(text) /\ IsStatsLine(text[k])
        THEN << >> ELSE text[k] ]

(***************************************************************************)
(* C4 as amended: after a sync pass of an existing note the text before    *)
(* the pass, without its trailing white space, is a prefix of the text     *)
(* after it apart from the kobo_stats values of the frontmatter, which the *)
(* pass recomputes; after any sync pass the markers of the blocks it adds  *)
(* come after all the markers that were there, in the order of the rows.   *)
(***************************************************************************)
C4_SyncAppendOnly ==
    hist.op = "sync" =>
        /\ (hist.pre # NoFile) =>
             /\ FrontMatterEnd(PostText) = FrontMatterEnd(hist.pre)
             /\ TextPrefix(WithoutStats(TextTrimEnd(hist.pre)),
                           WithoutStats(PostText))
        /\ LET old == MarkerIds(hist.pre)
               all == MarkerIds(PostText)
               new == SubSeq(all, Len(old) + 1, Len(all))
               Added(id) == \E j \in 1..Len(new) : new[j] = id
           IN  /\ SubSeq(all, 1, Len(old)) = old
               /\ Len(new) = hist.count
               /\ new = SelectSeq(RowIds(hist.rows), Added)

\* a pass added a block to a note that held a block with an insight link,
\* and cached the new total
C4_Witness ==
    /\ hist.op = "sync" /\ hist.pre # NoFile /\ hist.wrote
    /\ hist.count = 1
    /\ \E k \in 1..Len(hist.pre) : IsInsightLinkLine(hist.pre[k])
    /\ readCachedStats(hist.pre).highlights_total = << "1" >>
    /\ readCachedStats(PostText).highlights_total = << "2" >>

(***************************************************************************)
(* C5: a sync pass for a book that has no note and no highlight row writes *)
(* a note that holds the header only, so that a finished batch leaves a    *)
(* note for every selected book.                                           *)
(***************************************************************************)
C5_HeaderOnlyCreation ==
    /\ (hist.op = "sync" /\ hist.pre = NoFile /\ hist.rows = << >>) =>
          /\ docs[hist.book] # NoFile
          /\ computeIntermediateStats(docs[hist.book]).highlights_total = 0
    /\ (queue = << >>) => \A b \in selected : docs[b] # NoFile

\* a control line that holds the checkbox, checked or not, and the
\* placeholder memo:: or _, and no text
IsPlaceholderOnly(line) ==
    \/ IsEmptyMemoLine(line)
    \/ TrimL(line) \in { CHECKED_BOX \o << "_" >>, UNCHECKED_BOX \o << "_" >> }

IsCheckedLine(line) == StartsWith(TrimStartL(line), CHECKED)

\* a checked memo line with text after the placeholder
IsFilledCheckedMemo(line) ==
    IsMemoLine(line) /\ IsCheckedLine(line) /\ ~IsEmptyMemoLine(line)

MarkerLines(text) == { m \in 1..Len(text) : IsMarkerLine(text[m]) }

HasLink(text, m) ==
    \E k \in BlockTailIdx(text, m) : IsInsightLinkLine(text[k])

\* line k is the control line of a highlight block without insight link
IsBlockControl(text, k) ==
    \E m \in MarkerLines(text) : ControlIdx(text, m) = k /\ ~HasLink(text, m)

FilledIdx(text) == { k \in 1..Len(text) : IsFilledCheckedMemo(text[k]) }

\* where line k of the text before an extraction pass stands after it, if
\* the pass inserts one link line after every filled checked memo line
Shifted(text, k) == k + Cardinality({ j \in FilledIdx(text) : j < k })

(***************************************************************************)
(* C6: an extraction pass over a note makes no insight note for a control  *)
(* line that holds only the checkbox, checked or not, and the placeholder: *)
(* the line is left as it was and the pass counts and stores no more notes *)
(* than there are filled checked memo lines.                               *)
(***************************************************************************)
C6_PlaceholderOnlyInert ==
    hist.op = "extract" =>
        /\ \A k \in 1..Len(hist.pre) :
             IsPlaceholderOnly(hist.pre[k]) =>
                /\ Shifted(hist.pre, k) <= Len(PostText)
                /\ PostText[Shifted(hist.pre, k)] = hist.pre[k]
        /\ hist.count <= Cardinality(FilledIdx(hist.pre))
        /\ Cardinality(hist.made) <= Cardinality(FilledIdx(hist.pre))

(***************************************************************************)
(* C7: the scan of an extraction pass takes a line as a candidate exactly  *)
(* when it is the control line of a highlight block that has no insight    *)
(* link yet and is a checked memo line with text after the placeholder.    *)
(***************************************************************************)
C7_CandidateIffAnnotated ==
    hist.op = "extract" =>
        \A k \in 1..Len(hist.pre) :
            IsTarget(hist.pre[k]) <=>
                (IsFilledCheckedMemo(hist.pre[k]) /\ IsBlockControl(hist.pre, k))

\* the lines of the block whose marker is line m, from its callout title
\* to the line before the next block
BlockLines(text, m) ==
    LET tail == BlockTailIdx(text, m) \cup { QuoteRunEnd(text, m) }
        last == CHOOSE k \in tail : \A j \in tail : j <= k
    IN  SubSeq(text, m - 1, last)

\* the note of Scenario C: blocks b1 and b2, no link, the memo of b1 checked
\* and filled with T, the memo of b2 empty
ScenarioC(text) ==
    /\ text # NoFile
    /\ MarkerIds(text) = << B1, B2 >>
    /\ \A k \in 1..Len(text) : ~IsInsightLinkLine(text[k])
    /\ \E m1 \in MarkerIdx(text, B1), m2 \in MarkerIdx(text, B2) :
         /\ ControlIdx(text, m1) # 0
         /\ text[ControlIdx(text, m1)] =
               CHECKED_BOX \o MEMO_KEY \o << " " >> \o MemoT
         /\ ControlIdx(text, m2) # 0
         /\ IsUncheckedEmptyMemo(text[ControlIdx(text, m2)])

(***************************************************************************)
(* C8: an extraction pass over the note of Scenario C stores exactly one   *)
(* insight note, titled T; the control line of b1 has become the insight   *)
(* link line to that note; the lines of b2 are as before; the note then    *)
(* holds one insight link, and its cache says so.                          *)
(***************************************************************************)
C8_ScenarioC ==
    (hist.op = "extract" /\ ScenarioC(hist.pre)) =>
        /\ Cardinality(hist.made) = 1
        /\ \A n \in hist.made :
             /\ n.title = MemoT
             /\ \A m1 \in MarkerIdx(hist.pre, B1) :
                  PostText[ControlIdx(hist.pre, m1)] = InsightLinkLine(n.path)
        /\ \A m2 \in MarkerIdx(hist.pre, B2) :
             \E n2 \in MarkerIdx(PostText, B2) :
                BlockLines(PostText, n2) = BlockLines(hist.pre, m2)
        /\ computeIntermediateStats(PostText).insights_created = 1
        /\ readCachedStats(PostText).insights_created = << "1" >>

\* the control lines that follow the quote run of the block of marker m
ControlLines(text, m) ==
    { k \in BlockTailIdx(text, m) :
        IsControlLine(text[k]) \/ IsInsightLinkLine(text[k]) }

(***************************************************************************)
(* C9: after every sync pass and every extraction pass each highlight      *)
(* block of the note is followed by exactly one control line, a memo line  *)
(* or an insight link line.                                                *)
(***************************************************************************)
C9_OneControlLine ==
    (hist.op \in { "sync", "extract" } /\ PostText # NoFile) =>
        \A m \in MarkerLines(PostText) :
            Cardinality(ControlLines(PostText, m)) = 1

LinesOf(text) == { text[k] : k \in 1..Len(text) }

(***************************************************************************)
(* C10: a sync pass or an extraction pass keeps every insight link line    *)
(* the note held before it, and writes no memo line with text.             *)
(***************************************************************************)
C10_LinkLinesStay ==
    (hist.op \in { "sync", "extract" } /\ hist.pre # NoFile) =>
        /\ \A l \in LinesOf(hist.pre) :
             IsInsightLinkLine(l) => l \in LinesOf(PostText)
        /\ \A l \in LinesOf(PostText) :
             (IsMemoLine(l) /\ ~IsEmptyMemoLine(l)) => l \in LinesOf(hist.pre)

(***************************************************************************)
(* C11: an extraction pass that directly follows an extraction pass that   *)
(* wrote the same note finds no target, stores no insight note, counts     *)
(* nothing and leaves the text of the note as it found it.                 *)
(***************************************************************************)
C11_ReExtractionNoOp ==
    (hist.op = "extract" /\ hist.again) =>
        /\ Targets(hist.pre) = {}
        /\ hist.made = {}
        /\ hist.count = 0
        /\ PostText = hist.pre

(***************************************************************************)
(* C12: the number an extraction pass announces is the number of insight   *)
(* notes the pass stored.                                                  *)
(***************************************************************************)
C12_CountIsNotesCreated ==
    hist.op = "extract" => hist.count = Cardinality(hist.made)

\* the path of the insight note of the target at line k of a text
TargetPath(text, k) ==
    InsightPath(sanitizeFileName(NormalizedTitle(InsightTitle(text[k]))))

(***************************************************************************)
(* C13: when the storage fails on the folder or the file of the insight    *)
(* note of one target of an extraction pass, every other target of the     *)
(* pass has its insight note stored and its link line in the text of the   *)
(* note after the pass.                                                    *)
(***************************************************************************)
C13_CandidatesIndependent ==
    (hist.op = "extract" /\ hist.fault.kind \in { "createFolder", "create" }) =>
        LET ts == SortedSeq(Targets(hist.pre))
        IN  \A j \in 1..Len(ts) :
              j # hist.fault.at =>
                /\ \E n \in notes : n.path = TargetPath(hist.pre, ts[j])
                /\ InsightLinkLine(TargetPath(hist.pre, ts[j])) \in LinesOf(PostText)

\* creating the insight note of the j-th target of the last pass failed: the
\* storage failed on its folder or its file, or a note stored before the
\* pass holds its path
CreationFailed(j) ==
    \/ hist.fault.at = j /\ hist.fault.kind \in { "createFolder", "create" }
    \/ \E n \in notes \ hist.made :
          n.path = TargetPath(hist.pre, SortedSeq(Targets(hist.pre))[j])

(***************************************************************************)
(* C14: when creating the insight note of a target of an extraction pass   *)
(* fails, because a note is stored at its path or because the storage      *)
(* fails, no stored note is overwritten and the text of the note after the *)
(* pass holds, after the line of the target, the link line to the path     *)
(* meant for its note.                                                     *)
(***************************************************************************)
C14_SoftSuccess ==
    hist.op = "extract" =>
        LET ts == SortedSeq(Targets(hist.pre))
        IN  \A j \in 1..Len(ts) :
              CreationFailed(j) =>
                /\ hist.kept
                /\ \E k \in 2..Len(PostText) :
                      /\ PostText[k] = InsightLinkLine(TargetPath(hist.pre, ts[j]))
                      /\ PostText[k - 1] = EMPTY_MEMO_LINE

\* a link line as an extraction pass writes it: "- insight:: [[target]]"
IsWrittenLinkLine(line) ==
    LET open == << "-", " " >> \o INSIGHT_LINK_PREFIX \o << " ", "[", "[" >>
    IN  /\ StartsWith(line, open)
        /\ Len(line) > Len(open) + 2
        /\ SubSeq(line, Len(line) - 1, Len(line)) = << "]", "]" >>

(***************************************************************************)
(* C15: for the text of every note, highlights_total of                    *)
(* computeIntermediateStats is the number of highlight blocks of the text  *)
(* (the number of its id marker lines) and insights_created is the number  *)
(* of its link lines to insight notes.                                     *)
(***************************************************************************)
C15_StatsCorrect ==
    \A b \in Books :
        docs[b] # NoFile =>
            /\ computeIntermediateStats(docs[b]).highlights_total
                 = Cardinality(MarkerLines(docs[b]))
            /\ computeIntermediateStats(docs[b]).insights_created
                 = Cardinality({ k \in 1..Len(docs[b]) :
                                   IsWrittenLinkLine(docs[b][k]) })

\* the cache of the text agrees with the statistics of the text
CacheAgrees(text) ==
    /\ readCachedStats(text).highlights_total
         = NumStr(computeIntermediateStats(text).highlights_total)
    /\ readCachedStats(text).insights_created
         = NumStr(computeIntermediateStats(text).insights_created)

(***************************************************************************)
(* C16: after every completed sync pass and every completed extraction     *)
(* pass, a pass that finds nothing to do included, the kobo_stats values   *)
(* in the frontmatter of the note are computeIntermediateStats of the text *)
(* of the note.                                                            *)
(***************************************************************************)
C16_CacheConsistent ==
    (hist.op \in { "sync", "extract" } /\ ~hist.threw
        /\ docs[hist.book] # NoFile) => CacheAgrees(docs[hist.book])

(***************************************************************************)
(* C17: in a batch sync the books are taken one at a time, and a sync of   *)
(* one book that fails (a storage call throws) leaves the remaining books  *)
(* of the batch to be synced: after the turn of the loop for the first     *)
(* book of the queue, failed or not, the loop stands at the next book.     *)
(***************************************************************************)
C17_BatchIsolation ==
    [][ queue # << >> => queue' = Tail(queue) ]_vars

(***************************************************************************)
(* C18: a sync pass or an extraction pass that fails at any step leaves    *)
(* the text of the note exactly as the pass found it (and no note where    *)
(* there was none).                                                        *)
(***************************************************************************)
C18_FailedPassLeavesText ==
    (hist.op \in { "sync", "extract" } /\ hist.threw) =>
        docs[hist.book] = hist.pre

\* the passes in progress on the note of book b
InProgress(b) == { i \in 1..Len(passes) : passes[i].book = b }

(***************************************************************************)
(* C19: at most one pass is in progress on a note at any time, and so no   *)
(* pass in progress holds a text of its note that another pass has since   *)
(* overwritten.                                                            *)
(***************************************************************************)
C19_SingleWriter ==
    \A b \in Books : Cardinality(InProgress(b)) <= 1

\* the words of a string: its maximal runs of characters that are not white
\* space
RECURSIVE WordsFrom(_, _, _, _)
WordsFrom(s, i, word, acc) ==
    IF i > Len(s) THEN (IF word = << >> THEN acc ELSE Append(acc, word))
    ELSE IF IsWs(s[i])
    THEN WordsFrom(s, i + 1, << >>, IF word = << >> THEN acc ELSE Append(acc, word))
    ELSE WordsFrom(s, i + 1, Append(word, s[i]), acc)

Words(s) == WordsFrom(s, 1, << >>, << >>)

\* every run of white space of s is one space
SingleSpaced(s) ==
    \A i \in 1..Len(s) :
        IsWs(s[i]) => s[i] = " " /\ (i > 1 => ~IsWs(s[i - 1]))

\* a row with its id, text, book reference and creation timestamp
WellFormed(row) ==
    row.nulls \cap { "BookmarkID", "Text", "ContentID", "DateCreated" } = {}

WellFormedRows(table) == SelectSeq(table, WellFormed)

(***************************************************************************)
(* C20: the records an import returns are the well-formed rows of the      *)
(* table, in its order, each with the words of its text separated by       *)
(* single spaces; and a row with a NULL id, text, book reference or        *)
(* creation timestamp never becomes a highlight block of a note.           *)
(***************************************************************************)
C20_MalformedRowsDropped ==
    /\ hist.op = "import" =>
         /\ Len(hist.rows) = Len(WellFormedRows(hist.pre))
         /\ \A i \in 1..Len(hist.rows) :
              /\ hist.rows[i].bookmarkId = WellFormedRows(hist.pre)[i].id
              /\ Words(hist.rows[i].text)
                   = Words(JoinSpace(WellFormedRows(hist.pre)[i].text))
              /\ SingleSpaced(hist.rows[i].text)
    /\ \A b \in Books, row \in SourceRows :
         (docs[b] # NoFile /\ ~WellFormed(row)) =>
             MarkerLine(row.id) \notin LinesOf(docs[b])

\* a, from its index i on, is a subsequence of b from its index j on
RECURSIVE IsSubSeqFrom(_, _, _, _)
IsSubSeqFrom(a, i, b, j) ==
    IF i > Len(a) THEN TRUE
    ELSE IF j > Len(b) THEN FALSE
    ELSE IF a[i] = b[j] THEN IsSubSeqFrom(a, i + 1, b, j + 1)
    ELSE IsSubSeqFrom(a, i, b, j + 1)

NotCandidateLine(line) == ~IsFilledCheckedMemo(line)

\* the lines of the text that are not the control line of a candidate
FrameLines(text) == SelectSeq(WithoutStats(text), NotCandidateLine)

(***************************************************************************)
(* C21: an extraction pass changes only the control lines of its           *)
(* candidates (the checked memo lines with a text) and inserts at most one *)
(* link line for each: every other line of the text it read is in the text *)
(* it leaves, verbatim and in the same order, and a pass over a text       *)
(* without candidate leaves the text it read. The values of the kobo_stats *)
(* lines of the frontmatter are left aside.                                *)
(***************************************************************************)
C21_ExtractionFrame ==
    (hist.op = "extract" /\ ~hist.threw) =>
        /\ IsSubSeqFrom(FrameLines(hist.pre), 1, WithoutStats(PostText), 1)
        /\ Len(PostText) <= Len(hist.pre) + Cardinality(FilledIdx(hist.pre))
        /\ FilledIdx(hist.pre) = {} => WithoutStats(PostText) = WithoutStats(hist.pre)

(***************************************************************************)
(* C22: every completed sync pass and every completed extraction pass ends *)
(* with a notice to the user, also when it had nothing to do.              *)
(***************************************************************************)
C22_EveryPassNotifies ==
    (hist.op \in { "sync", "extract" } /\ ~hist.threw) => hist.notice # "none"

\* the quoted passage of the block whose marker is line m, as the lines of
\* a callout
OwnQuoteBody(text, m) ==
    LET run == BlockQuote(text, m)
        passage == TextTrim([ i \in 1..Len(run) |-> StripQuotePrefix(run[i]) ])
    IN  [ i \in 1..Len(passage) |-> << ">", " " >> \o passage[i] ]

(***************************************************************************)
(* C23: after an extraction pass, every candidate of the text the pass     *)
(* read whose link line is in the text it left has an insight note at the  *)
(* linked path that holds the quoted passage of the candidate's own block; *)
(* so two candidates are never linked to one note with the passage of only *)
(* one of them.                                                            *)
(***************************************************************************)
C23_OneNotePerExtraction ==
    (hist.op = "extract" /\ ~hist.threw) =>
        \A m \in MarkerLines(hist.pre) :
            LET k == ControlIdx(hist.pre, m)
            IN  (/\ k # 0
                 /\ IsFilledCheckedMemo(hist.pre[k])
                 /\ InsightLinkLine(TargetPath(hist.pre, k)) \in LinesOf(PostText))
                => \E n \in notes :
                     /\ n.path = TargetPath(hist.pre, k)
                     /\ n.quoteBody = OwnQuoteBody(hist.pre, m)

\* the pass goes through the body of its loop for the target at line k
Processed(text, k) ==
    /\ IsTarget(text[k])
    /\ TextTrim(collectQuoteBlockUpwards(text, k).quoteContent) # EmptyText

\* the pass inserts a link line for the target at line k
Linked(text, k) ==
    Processed(text, k) /\ NormalizedTitle(InsightTitle(text[k])) # << >>

ProcessedIdx(text) == { k \in 1..Len(text) : Processed(text, k) }

LinkedIdx(text) == { k \in 1..Len(text) : Linked(text, k) }

\* where line k of the text the pass read stands in the text it writes,
\* given the lines the pass inserts a link line after
PositionAfter(linked, k) == k + Cardinality({ j \in linked : j < k })

\* before and after are the texts around a pass without their kobo_stats
\* values
PositionsKept(before, after, processed, linked) ==
    /\ Len(after) = Len(before) + Cardinality(linked)
    /\ \A k \in 1..Len(before) :
         IF k \in processed
         THEN /\ after[PositionAfter(linked, k)] = EMPTY_MEMO_LINE
              /\ k \in linked =>
                   after[PositionAfter(linked, k) + 1]
                     = InsightLinkLine(TargetPath(before, k))
         ELSE after[PositionAfter(linked, k)] = before[k]

(***************************************************************************)
(* C24: in the text an extraction pass writes, the line overwritten for a  *)
(* target is the line the target was found at, moved down only by the link *)
(* lines inserted above it, its link line stands directly after it, and    *)
(* every other line stands at its place in the same way, however many      *)
(* targets of the pass insert a line (kobo_stats values aside).            *)
(***************************************************************************)
C24_ReverseOrderKeepsPositions ==
    (hist.op = "extract" /\ hist.wrote) =>
        PositionsKept(WithoutStats(hist.pre), WithoutStats(PostText),
                      ProcessedIdx(hist.pre), LinkedIdx(hist.pre))

\* a pass has written the link lines of two targets with different paths
C24_Witness ==
    /\ hist.op = "extract"
    /\ hist.wrote
    /\ \E j, k \in LinkedIdx(hist.pre) :
         j < k /\ TargetPath(hist.pre, j) # TargetPath(hist.pre, k)

\* the quote run of the block whose marker is line m, below its title line
\* and its marker line, without the quote prefix
QuoteRunText(text, m) ==
    [ i \in 1..Len(BlockQuote(text, m)) |-> StripQuotePrefix(BlockQuote(text, m)[i]) ]

\* the control line of the block whose marker is line m is a target
TargetBlock(text, m) ==
    ControlIdx(text, m) # 0 /\ IsTarget(text[ControlIdx(text, m)])

(***************************************************************************)
(* C25: for every target of an extraction pass that is the control line of *)
(* a highlight block, collectQuoteBlockUpwards returns the text of the     *)
(* quote run of that block, its title line and its marker line left out    *)
(* and nothing else.                                                       *)
(***************************************************************************)
C25_QuoteRecovered ==
    hist.op = "extract" =>
        \A m \in MarkerLines(hist.pre) :
            TargetBlock(hist.pre, m) =>
                collectQuoteBlockUpwards(hist.pre, ControlIdx(hist.pre, m)).quoteContent
                  = QuoteRunText(hist.pre, m)

\* the ids of the rows of the database
KnownIds == { B1, B2, B3 }

(***************************************************************************)
(* C26: for every target of an extraction pass that is the control line of *)
(* a highlight block, the bookmarkId collectQuoteBlockUpwards returns is   *)
(* the id of the marker line of that block, whatever the text, the title   *)
(* line and the annotation line of the block hold.                         *)
(***************************************************************************)
C26_RecordIdRecovered ==
    hist.op = "extract" =>
        \A m \in MarkerLines(hist.pre), id \in KnownIds :
            (TargetBlock(hist.pre, m) /\ hist.pre[m] = MarkerLine(id)) =>
                collectQuoteBlockUpwards(hist.pre, ControlIdx(hist.pre, m)).bookmarkId = id

\* the targets of the text for which no quoted text is recovered
EmptyQuoteIdx(text) ==
    { k \in 1..Len(text) : IsTarget(text[k]) /\ ~Processed(text, k) }

\* the target at line k of the text before is left alone in the text after
LeftAlone(before, after, linked, k) ==
    /\ after[PositionAfter(linked, k)] = before[k]
    /\ PositionAfter(linked, k) < Len(after) =>
         after[PositionAfter(linked, k) + 1] # InsightLinkLine(TargetPath(before, k))

(***************************************************************************)
(* C27: a target of an extraction pass whose recovered quote is empty or   *)
(* white space keeps its line as it was and gets no link line, the notes   *)
(* the pass makes are notes of the other targets, and the count of the     *)
(* pass is the number of the other targets.                                *)
(***************************************************************************)
C27_EmptyQuoteSkipped ==
    (hist.op = "extract" /\ ~hist.threw) =>
        /\ \A k \in EmptyQuoteIdx(hist.pre) :
             LeftAlone(hist.pre, PostText, LinkedIdx(hist.pre), k)
        /\ \A n \in hist.made :
             \E k \in ProcessedIdx(hist.pre) : n.path = TargetPath(hist.pre, k)
        /\ hist.count = Cardinality(ProcessedIdx(hist.pre))

\* a pass over a text with a target without quote and a target with one
C27_Witness ==
    /\ hist.op = "extract"
    /\ hist.wrote
    /\ EmptyQuoteIdx(hist.pre) # {}
    /\ hist.made # {}

\* the quote run of the block whose marker is line m of the text before,
\* from its title line to its last line, stands in one piece in the text
\* after, moved down by d lines
RunKept(before, after, m, d) ==
    /\ QuoteRunEnd(before, m) + d <= Len(after)
    /\ SubSeq(after, m - 1 + d, QuoteRunEnd(before, m) + d)
         = SubSeq(before, m - 1, QuoteRunEnd(before, m))

(***************************************************************************)
(* C28: an extraction pass leaves the quote run of every highlight block,  *)
(* its title line and its marker line included, as it was and in one       *)
(* piece: no line of it is overwritten or removed and none is inserted in  *)
(* it, whatever the text of the highlight holds.                           *)
(***************************************************************************)
C28_BlocksImmutable ==
    (hist.op = "extract" /\ ~hist.threw) =>
        \A m \in MarkerLines(hist.pre) :
            \E d \in 0..(Len(PostText) - Len(hist.pre)) :
                RunKept(hist.pre, PostText, m, d)

LINK_OPEN == << "-", " " >> \o INSIGHT_LINK_PREFIX \o << " ", "[", "[" >>

\* what stands between the double brackets of a link line
Bracketed(line) == SubSeq(line, Len(LINK_OPEN) + 1, Len(line) - 2)

\* the line is a link line whose target, with the extension of a note file
\* added, is the path
LinksTo(line, path) ==
    /\ StartsWith(line, LINK_OPEN)
    /\ Len(line) >= Len(LINK_OPEN) + 2
    /\ SubSeq(line, Len(line) - 1, Len(line)) = << "]", "]" >>
    /\ Bracketed(line) \o MD_EXT = path

(***************************************************************************)
(* C29: the link line an extraction pass writes for a target holds, in its *)
(* double brackets, the path without the .md extension at which            *)
(* createNewInsightNote made or tried to make the note of that target; a   *)
(* note is stored at that path unless the creation of the file failed.     *)
(***************************************************************************)
C29_LinkAndNoteAgree ==
    (hist.op = "extract" /\ hist.wrote) =>
        \A k \in LinkedIdx(hist.pre) :
            /\ LinksTo(PostText[PositionAfter(LinkedIdx(hist.pre), k) + 1],
                       TargetPath(hist.pre, k))
            /\ \/ \E n \in notes : n.path = TargetPath(hist.pre, k)
               \/ hist.fault.kind = "create"

\* a pass has written the link of a title that sanitizeFileName cut
C29_Witness ==
    /\ hist.op = "extract"
    /\ hist.wrote
    /\ \E k \in LinkedIdx(hist.pre) :
         /\ Len(NormalizedTitle(InsightTitle(hist.pre[k]))) > MaxFileName
         /\ \E n \in hist.made : n.path = TargetPath(hist.pre, k)

\* an extraction pass made insight notes and threw before vault.modify, or
\* a pass run after it on the same text threw before its write again
Aborted ==
    /\ hist.op = "extract"
    /\ hist.threw
    /\ ~hist.wrote
    /\ (hist.made # {} \/ hist.retry)

\* the pass run again wrote the note: every checked memo line with a title
\* and a quote is followed by the link to its insight note, and no note the
\* pass stored has the path of a note that was stored before it
Converged ==
    /\ hist.op = "extract"
    /\ hist.retry
    /\ hist.wrote
    /\ \A k \in LinkedIdx(hist.pre) :
         LinksTo(PostText[PositionAfter(LinkedIdx(hist.pre), k) + 1],
                 TargetPath(hist.pre, k))
    /\ \A n \in hist.made : \A o \in notes \ hist.made : o.path # n.path
    /\ hist.kept

(***************************************************************************)
(* C30  Retry convergence: when an extraction pass has stored insight      *)
(* notes and then failed before the note of the book was written, running  *)
(* extraction again on the unchanged note leads to a written note in which *)
(* every annotated candidate is followed by its link line, and the pass    *)
(* that writes it stores no second note for a path that already has one.   *)
(***************************************************************************)
C30_RetryConverges == Aborted ~> Converged

\* a pass run again after an aborted one wrote the links of two candidates
\* whose notes the aborted pass had stored
C30_Witness ==
    /\ Converged
    /\ hist.made = {}
    /\ Cardinality(LinkedIdx(hist.pre)) >= 2
    /\ \A k \in LinkedIdx(hist.pre) :
         \E n \in notes : n.path = TargetPath(hist.pre, k)

====
